---- MODULE Spec2Model ----
(***************************************************************************)
(* Model of the statistical recipes of python-recipes:                     *)
(*   recipes/distance.py  group_dist_agg, distance_permute_test,           *)
(*                        distance_uniq_permute_test                       *)
(*   recipes/cooccur.py   overlap, cooccur                                 *)
(*   recipes/ngs.py       create_sample_table, sort_by_pattern,            *)
(*                        split_paired_end, equal_seqs, compute_n50        *)
(*   recipes/splitter.py  split, AnotherEntryTail, AnotherEntryID          *)
(*   recipes/util.py      flatten, parse_function_call                     *)
(*   recipes/pbs.py       JobArrays.__init__, JobArrays.create             *)
(*                                                                         *)
(* Each function is a sequential program: pc is the position in the        *)
(* function body, the other variables are its parameters and locals.       *)
(* Floating point numbers are modelled as exact rationals <<num, den>>     *)
(* in lowest terms with den > 0.  Random draws (numpy RandomState) are     *)
(* nondeterministic choices over every outcome the generator can return.   *)
(***************************************************************************)
EXTENDS Integers, Sequences, FiniteSets, TLC

\* ------------------------------------------------------------------ bounds
MaxN     == 3   \* largest number of rows of the distance matrix
MaxDist  == 1   \* distances are drawn from 0..MaxDist
MaxPerm  == 1   \* distance_uniq_permute_test: permutations in 0..MaxPerm, n!-1, n!
MaxRounds == 2  \* distance_permute_test: permutations in 0..MaxRounds
MaxPairs == 3   \* longest list of pairs handed to group_dist_agg
MaxLen   == 3   \* cooccur: largest number of samples of a and b
MaxVal   == 1   \* cooccur: abundances are drawn from 0..MaxVal
MaxPsudo == 1   \* cooccur: psudo is drawn from 0..MaxPsudo
MaxShuffles == 2 \* cooccur: n is drawn from 1..MaxShuffles
MaxFiles == 3   \* create_sample_table: most files in the directory d
MaxReads == 3   \* split_paired_end: most records in the fastq file
MaxSeqs  == 2   \* equal_seqs: longest sequence collection
MaxRows  == 3   \* JobArrays: most rows of the metadata table
MaxExpr  == 4   \* parse_function_call: most characters of expr
MaxItems == 2   \* flatten: most elements of the list items
MaxStream == 4  \* split: most lines in the stream
MaxNames == 3   \* sort_by_pattern: longest list of names sorted
MaxContigs == 4 \* compute_n50: most contig lengths in nums
MaxContigLen == 3 \* compute_n50: lengths and cutoff are drawn from 0..MaxContigLen

VARIABLES
    pc,            \* position in the running function
    fn,            \* which function is running
    draws,         \* number of samples taken from the random generator
    \* distance.py
    distance, n, group_1, group_2, two_sided, statistic, permutations,
    grp1, grp2, delta, delta_rand, idx_map, used, perm_set, perm_iter, m, p,
    pairs, grp, k, result,
    \* cooccur.py (co_n is the parameter n of cooccur)
    a, b, cutoff, psudo, co_n, negate, real, dist, nested, pval,
    \* ngs.py (negate is also the parameter of create_sample_table)
    d, file_types, pattern_types, listing, samples, sids, sorted_n, df, exc,
    \* ngs.py, split_paired_end (pe_files is the list files with what was
    \* written to each)
    fastq, seqs, r1, r2, r1_unpaired, r2_unpaired, pe_files,
    \* ngs.py, equal_seqs (sorted_1, sorted_2 are the sorted lists zip
    \* still has to yield, eq_ret the value returned)
    seqs_1, seqs_2, sorted_1, sorted_2, eq_ret,
    \* ngs.py, compute_n50 (nums_arg is the argument nums, consumed the number
    \* of items taken from it, n50_cutoff the parameter cutoff, todo what the
    \* loop over the sorted list has not visited yet)
    nums_arg, is_iterator, consumed, n50_cutoff, nums, n50_len, length, todo,
    n50_ret,
    \* ngs.py, sort_by_pattern (sp_patterns is the parameter patterns,
    \* sp_list the list that is sorted in place, sp_input its first value,
    \* sp_exc the exception raised)
    sp_patterns, sp_input, sp_list, sp_exc,
    \* splitter.py (line_no is the number of lines read from stream, yielded
    \* the entries yielded so far; lines_at and yielded_at hold the line
    \* numbers of lines and yielded, another the numbers of the lines for
    \* which is_another returned a true value)
    stream, is_another, construct, ignore, line_no, lines, yielded, _flag,
    _ident, lines_at, yielded_at, another,
    \* util.py, flatten (calls holds the running calls of flatten, innermost
    \* last, each with the items it has not visited yet and its
    \* ignore_types; flat is what has been yielded to the caller, iterated
    \* the elements flatten was called on)
    items, ignore_types, calls, flat, iterated,
    \* util.py, parse_function_call (chars_read is the number of characters
    \* taken from iter(expr); parsers holds the locals items and item of the
    \* running calls of parser, innermost last; parsed is the value
    \* returned, parse_exc the exception raised)
    expr, chars_read, parsers, parsed, parse_exc,
    \* pbs.py, JobArrays (metadata is the list of the row names of
    \* self.metadata, kwargs is self.kwargs, row_i the number of rows the
    \* loop of create has visited, fh the strings written to the launcher)
    metadata, kwargs, row_i, fh

distVars == <<distance, n, group_1, group_2, two_sided, statistic,
              permutations, grp1, grp2, delta, delta_rand, idx_map, used,
              perm_set, perm_iter, m, p>>
aggVars  == <<pairs, grp, k, result>>
coVars   == <<a, b, cutoff, psudo, co_n, negate, real, dist, nested, pval>>
tabVars  == <<d, file_types, pattern_types, listing, samples, sids,
              sorted_n, df, exc>>
pairedVars == <<fastq, seqs, r1, r2, r1_unpaired, r2_unpaired, pe_files>>
equalVars == <<seqs_1, seqs_2, sorted_1, sorted_2, eq_ret>>
n50Vars  == <<nums_arg, is_iterator, consumed, n50_cutoff, nums, n50_len,
              length, todo, n50_ret>>
sortVars == <<sp_patterns, sp_input, sp_list, sp_exc>>
splitVars == <<stream, is_another, construct, ignore, line_no, lines,
               yielded, _flag, _ident, lines_at, yielded_at, another>>
flattenVars == <<items, ignore_types, calls, flat, iterated>>
parseVars == <<expr, chars_read, parsers, parsed, parse_exc>>
jobVars  == <<metadata, kwargs, row_i, fh>>
extVars  == <<pairedVars, equalVars, n50Vars, sortVars, splitVars,
              flattenVars, parseVars, jobVars>>
vars     == <<pc, fn, draws, distVars, aggVars, coVars, tabVars, extVars>>

\* ------------------------------------------------------- exact arithmetic
NoValue == <<>>          \* a local that has not been assigned yet

Abs(x) == IF x < 0 THEN -x ELSE x

RECURSIVE GCD(_, _)
GCD(x, y) == IF y = 0 THEN x ELSE GCD(y, x % y)

\* x / y  (true division), y /= 0
Div(x, y) ==
    LET g == GCD(Abs(x), Abs(y))
        s == IF y < 0 THEN -1 ELSE 1
    IN  <<(s * x) \div g, (s * y) \div g>>

Sub(x, y)     == Div(x[1] * y[2] - y[1] * x[2], x[2] * y[2])
Greater(x, y) == x[1] * y[2] > y[1] * x[2]
np_abs(x)     == <<Abs(x[1]), x[2]>>
Num(x)        == <<x, 1>>

\* ------------------------------------------------------------- distance.py
Idx(nn)   == 0 .. (nn - 1)
Pairs(nn) == {ij \in Idx(nn) \X Idx(nn) : ij[1] < ij[2]}

\* distance matrices of n points on a line, coordinates in 0..MaxDist
LineMatrices(nn) ==
    { [ij \in Idx(nn) \X Idx(nn) |-> Abs(x[ij[1]] - x[ij[2]])]
      : x \in [Idx(nn) -> 0 .. MaxDist] }

RECURSIVE np_sum(_)
np_sum(s) == IF s = <<>> THEN 0 ELSE Head(s) + np_sum(Tail(s))

RECURSIVE Insert(_, _)
Insert(x, s) ==
    IF s = <<>> THEN <<x>>
    ELSE IF x <= Head(s) THEN <<x>> \o s
    ELSE <<Head(s)>> \o Insert(x, Tail(s))

RECURSIVE Sorted(_)
Sorted(s) == IF s = <<>> THEN <<>> ELSE Insert(Head(s), Sorted(Tail(s)))

np_mean(g) == Div(np_sum(g), Len(g))

\* np.median that takes the upper middle value of an even-length array
np_median_upper(g) == Num(Sorted(g)[(Len(g) \div 2) + 1])

np_median(g) ==
    LET s == Sorted(g)
        h == Len(g) \div 2
    IN  IF Len(g) % 2 = 1 THEN Num(s[h + 1])
        ELSE Div(s[h] + s[h + 1], 2)

RECURSIVE np_max(_)
np_max(g) ==
    IF Len(g) = 1 THEN g[1]
    ELSE LET r == np_max(Tail(g)) IN IF g[1] >= r THEN g[1] ELSE r

\* the callables handed in as `statistic`: np.max and lambda g: g[0]
Callables  == {"max", "first"}
Statistics == {"mean", "median"} \cup Callables

CallStatistic(f, g) == IF f = "max" THEN Num(np_max(g)) ELSE Num(g[1])

\* grp[k] = distance[pair[0], pair[1]]
GrpEntry(dm, pair) == dm[<<pair[1], pair[2]>>]

\* lines 67-72 of group_dist_agg
ApplyStatistic(g, stat) ==
    IF stat = "mean" THEN np_mean(g)
    ELSE IF stat = "median" THEN np_median(g)
    ELSE CallStatistic(stat, g)

RECURSIVE FillGrp(_, _)
FillGrp(dm, ps) ==
    IF ps = <<>> THEN <<>>
    ELSE <<GrpEntry(dm, Head(ps))>> \o FillGrp(dm, Tail(ps))

group_dist_agg(dm, ps, stat) == ApplyStatistic(FillGrp(dm, ps), stat)

factorial(nn) == IF nn <= 1 THEN 1 ELSE LET f[x \in 1 .. nn] == IF x = 1 THEN 1 ELSE x * f[x - 1] IN f[nn]

\* tuples produced by itertools.permutations(range(n)) / rand.permutation
Tuples(nn) == {t \in [1 .. nn -> Idx(nn)] : \A x, y \in 1 .. nn : t[x] = t[y] => x = y}

Exhausted == <<>>
FirstTuple(nn) == [x \in 1 .. nn |-> x - 1]

\* the tuple itertools.permutations yields after t (lexicographic successor)
NextTuple(t) ==
    LET len  == Len(t)
        asc  == {x \in 1 .. (len - 1) : t[x] < t[x + 1]}
    IN  IF asc = {} THEN Exhausted
        ELSE LET x == CHOOSE c \in asc : \A o \in asc : o <= c
                 y == CHOOSE c \in (x + 1) .. len :
                          /\ t[c] > t[x]
                          /\ \A o \in (x + 1) .. len : t[o] > t[x] => o <= c
                 sw == [t EXCEPT ![x] = t[y], ![y] = t[x]]
             IN  [z \in 1 .. len |-> IF z <= x THEN sw[z] ELSE sw[len + x + 1 - z]]

\* perm_iter without the next(perm_iter) that drops the identity
PermIterStart_no_next(nn) == FirstTuple(nn)

\* perm_iter = itertools.permutations(range(n)); next(perm_iter)
PermIterStart(nn) == NextTuple(FirstTuple(nn))

\* idx_map = dict(zip(range(n), k))
ZipMap(nn, t) == [x \in Idx(nn) |-> t[x + 1]]

\* a relabelling that maps only the first endpoint of each pair
Relabel_first_only(map, group) == [x \in 1 .. Len(group) |-> <<map[group[x][1]], group[x][2]>>]

\* [(idx_map[i], idx_map[j]) for i, j in group]
Relabel(map, group) == [x \in 1 .. Len(group) |-> <<map[group[x][1]], map[group[x][2]]>>]

\* delta_rand[k] of one round
RoundDelta(dm, map, g1, g2, stat) ==
    Sub(group_dist_agg(dm, Relabel(map, g2), stat),
        group_dist_agg(dm, Relabel(map, g1), stat))

\* np.sum(delta_rand >= delta)
RECURSIVE CountGreaterEqual(_, _)
CountGreaterEqual(s, x) ==
    IF s = <<>> THEN 0
    ELSE (IF Greater(x, Head(s)) THEN 0 ELSE 1) + CountGreaterEqual(Tail(s), x)

\* np.sum(delta_rand > delta)
RECURSIVE CountGreater(_, _)
CountGreater(s, x) ==
    IF s = <<>> THEN 0
    ELSE (IF Greater(Head(s), x) THEN 1 ELSE 0) + CountGreater(Tail(s), x)

\* np.sum(np.abs(delta_rand) > np.abs(delta))
RECURSIVE CountAbsGreater(_, _)
CountAbsGreater(s, x) ==
    IF s = <<>> THEN 0
    ELSE (IF Greater(np_abs(Head(s)), np_abs(x)) THEN 1 ELSE 0)
         + CountAbsGreater(Tail(s), x)

\* the for loop of distance_uniq_permute_test runs its body only for the
\* m in perm_set: skip the tuples in between
RECURSIVE SkipToSelected(_, _, _)
SkipToSelected(t, mm, sel) ==
    IF t = Exhausted \/ mm \in sel THEN <<t, mm>>
    ELSE SkipToSelected(NextTuple(t), mm + 1, sel)

\* the <<group_1, group_2>> the tests are called with (indices below n);
\* the first is the call of __main__
BaseGroups ==
    { << << <<0, 1>>, <<1, 2>> >>, << <<0, 2>> >> >>,
      << << <<0, 1>> >>, << <<1, 2>>, <<0, 2>>, <<0, 1>> >> >>,
      << << <<1, 2>>, <<0, 2>>, <<0, 1>> >>, << <<0, 1>>, <<1, 2>> >> >>,
      << << <<0, 1>> >>, << <<0, 1>> >> >> }
InRange(g, nn) == \A x \in 1 .. Len(g) : g[x][1] < nn /\ g[x][2] < nn
Groups(nn) == {gg \in BaseGroups : InRange(gg[1], nn) /\ InRange(gg[2], nn)}

\* The variables of the functions that are not running keep their idle values.
PairedIdle ==
    /\ fastq = <<>> /\ seqs = <<>> /\ r1 = <<>> /\ r2 = <<>>
    /\ r1_unpaired = <<>> /\ r2_unpaired = <<>> /\ pe_files = <<>>

EqualIdle ==
    /\ seqs_1 = <<>> /\ seqs_2 = <<>> /\ sorted_1 = <<>> /\ sorted_2 = <<>>
    /\ eq_ret = NoValue

N50Idle ==
    /\ nums_arg = <<>> /\ is_iterator = FALSE /\ consumed = 0
    /\ n50_cutoff = 0 /\ nums = <<>> /\ n50_len = NoValue /\ length = 0
    /\ todo = <<>> /\ n50_ret = NoValue

SortIdle ==
    sp_patterns = <<>> /\ sp_input = <<>> /\ sp_list = <<>> /\ sp_exc = ""

SplitIdle ==
    /\ stream = <<>> /\ is_another = "" /\ construct = "" /\ ignore = ""
    /\ line_no = 0 /\ lines = <<>> /\ yielded = <<>> /\ _flag = FALSE
    /\ _ident = "None" /\ lines_at = <<>> /\ yielded_at = <<>>
    /\ another = {}

FlattenIdle ==
    /\ items = <<>> /\ ignore_types = {} /\ calls = <<>> /\ flat = <<>>
    /\ iterated = <<>>

ParseIdle ==
    /\ expr = <<>> /\ chars_read = 0 /\ parsers = <<>> /\ parsed = NoValue
    /\ parse_exc = ""

JobIdle ==
    metadata = <<>> /\ kwargs = <<>> /\ row_i = 0 /\ fh = <<>>

OthersIdle(running) ==
    /\ IF running = "split_paired_end" THEN TRUE ELSE PairedIdle
    /\ IF running = "equal_seqs" THEN TRUE ELSE EqualIdle
    /\ IF running = "compute_n50" THEN TRUE ELSE N50Idle
    /\ IF running = "sort_by_pattern" THEN TRUE ELSE SortIdle
    /\ IF running = "split" THEN TRUE ELSE SplitIdle
    /\ IF running = "flatten" THEN TRUE ELSE FlattenIdle
    /\ IF running = "parse_function_call" THEN TRUE ELSE ParseIdle
    /\ IF running = "JobArrays" THEN TRUE ELSE JobIdle

ExtIdle == OthersIdle("")

AggIdle == pairs = <<>> /\ grp = <<>> /\ k = 0 /\ result = NoValue

CoIdle ==
    /\ a = <<>> /\ b = <<>> /\ cutoff = 0 /\ psudo = 0 /\ co_n = 0
    /\ negate = FALSE /\ real = NoValue /\ dist = <<>> /\ nested = 0
    /\ pval = NoValue

TabIdle ==
    /\ d = {} /\ file_types = <<>> /\ pattern_types = <<>> /\ listing = <<>>
    /\ samples = <<>> /\ sids = <<>> /\ sorted_n = 0 /\ df = <<>> /\ exc = ""

DistLocalsInit ==
    /\ grp1 = NoValue /\ grp2 = NoValue /\ delta = NoValue
    /\ delta_rand = <<>> /\ idx_map = <<>> /\ used = <<>>
    /\ perm_set = {} /\ perm_iter = Exhausted /\ m = 0 /\ p = NoValue

InitPermute ==
    /\ ExtIdle
    /\ fn \in {"distance_permute_test", "distance_uniq_permute_test"}
    /\ pc = IF fn = "distance_permute_test" THEN "p_start" ELSE "u_check"
    /\ draws = 0
    /\ n \in 2 .. MaxN
    /\ distance \in LineMatrices(n)
    /\ \E gg \in Groups(n) : group_1 = gg[1] /\ group_2 = gg[2]
    /\ statistic \in {"mean", "median"}
    /\ two_sided \in IF fn = "distance_permute_test" THEN BOOLEAN ELSE {FALSE}
    /\ permutations \in IF fn = "distance_permute_test" THEN 0 .. MaxRounds
                        ELSE (0 .. MaxPerm) \cup {factorial(n) - 1, factorial(n)}
    /\ DistLocalsInit
    /\ AggIdle
    /\ CoIdle
    /\ TabIdle

\* distance_permute_test, lines 106-111
PermuteStart ==
    /\ pc = "p_start"
    /\ grp1' = group_dist_agg(distance, group_1, statistic)
    /\ grp2' = group_dist_agg(distance, group_2, statistic)
    /\ delta' = Sub(grp2', grp1')
    /\ pc' = "p_loop"
    /\ UNCHANGED <<extVars, fn, draws, distance, n, group_1, group_2, two_sided,
                   statistic, permutations, delta_rand, idx_map, used,
                   perm_set, perm_iter, m, p, aggVars, coVars, tabVars>>

\* distance_permute_test, one round of the loop of lines 112-121
PermuteRound ==
    /\ pc = "p_loop"
    /\ Len(delta_rand) < permutations
    /\ \E t \in Tuples(n) :
          /\ idx_map' = ZipMap(n, t)
          /\ delta_rand' = Append(delta_rand,
                 RoundDelta(distance, idx_map', group_1, group_2, statistic))
    /\ draws' = draws + 1
    /\ UNCHANGED <<extVars, pc, fn, distance, n, group_1, group_2, two_sided, statistic,
                   permutations, grp1, grp2, delta, used, perm_set, perm_iter,
                   m, p, aggVars, coVars, tabVars>>

\* distance_permute_test, lines 122-126
PermuteFinish ==
    /\ pc = "p_loop"
    /\ Len(delta_rand) >= permutations
    /\ p' = IF two_sided
            THEN Div(CountAbsGreater(delta_rand, delta), permutations + 1)
            ELSE Div(CountGreater(delta_rand, delta), permutations + 1)
    /\ pc' = "done"
    /\ UNCHANGED <<extVars, fn, draws, distance, n, group_1, group_2, two_sided,
                   statistic, permutations, grp1, grp2, delta, delta_rand,
                   idx_map, used, perm_set, perm_iter, m, aggVars, coVars, tabVars>>

\* permutations > counts
TooManyPermutations_off_by_one(nn, perms) == perms > factorial(nn)

\* permutations > counts - 1
TooManyPermutations(nn, perms) == perms > factorial(nn) - 1

\* distance_uniq_permute_test, lines 155-158
UniqCheck ==
    /\ pc = "u_check"
    /\ pc' = IF TooManyPermutations(n, permutations) THEN "raised" ELSE "u_sample"
    /\ UNCHANGED <<extVars, fn, draws, distVars, aggVars, coVars, tabVars>>

\* rand.choice(range(1, counts), permutations, replace=False)
RECURSIVE SubsetsOfSize(_, _)
SubsetsOfSize(S, size) ==
    IF size = 0 THEN {{}}
    ELSE IF size > Cardinality(S) THEN {}
    ELSE LET x == CHOOSE c \in S : \A o \in S : c <= o
         IN  {s \cup {x} : s \in SubsetsOfSize(S \ {x}, size - 1)}
             \cup SubsetsOfSize(S \ {x}, size)

ChoiceWithoutReplacement(counts, size) == SubsetsOfSize(1 .. (counts - 1), size)

\* distance_uniq_permute_test, lines 159-164
UniqSample ==
    /\ pc = "u_sample"
    /\ perm_set' \in ChoiceWithoutReplacement(factorial(n), permutations)
    /\ draws' = draws + 1
    /\ perm_iter' = PermIterStart(n)
    /\ m' = 1
    /\ pc' = "u_loop"
    /\ UNCHANGED <<extVars, fn, distance, n, group_1, group_2, two_sided, statistic,
                   permutations, grp1, grp2, delta, delta_rand, idx_map, used,
                   p, aggVars, coVars, tabVars>>

\* distance_uniq_permute_test, the loop of lines 166-173 up to and including
\* its next round with m in perm_set
UniqRound ==
    /\ pc = "u_loop"
    /\ LET at == SkipToSelected(perm_iter, m, perm_set)
       IN  /\ at[1] # Exhausted
           /\ idx_map' = ZipMap(n, at[1])
           /\ used' = Append(used, idx_map')
           /\ delta_rand' = Append(delta_rand,
                  RoundDelta(distance, idx_map', group_1, group_2, statistic))
           /\ perm_iter' = NextTuple(at[1])
           /\ m' = at[2] + 1
    /\ UNCHANGED <<extVars, pc, fn, draws, distance, n, group_1, group_2, two_sided,
                   statistic, permutations, grp1, grp2, delta, perm_set, p,
                   aggVars, coVars, tabVars>>

\* distance_uniq_permute_test, loop exit and lines 174-178
UniqFinish ==
    /\ pc = "u_loop"
    /\ SkipToSelected(perm_iter, m, perm_set)[1] = Exhausted
    /\ perm_iter' = Exhausted
    /\ grp1' = group_dist_agg(distance, group_1, statistic)
    /\ grp2' = group_dist_agg(distance, group_2, statistic)
    /\ delta' = Sub(grp2', grp1')
    /\ p' = Div(CountGreater(delta_rand, delta'), permutations + 1)
    /\ pc' = "done"
    /\ UNCHANGED <<extVars, fn, draws, distance, n, group_1, group_2, two_sided,
                   statistic, permutations, delta_rand, idx_map, used,
                   perm_set, m, aggVars, coVars, tabVars>>

NextPermute ==
    \/ PermuteStart
    \/ PermuteRound
    \/ PermuteFinish
    \/ UniqCheck
    \/ UniqSample
    \/ UniqRound
    \/ UniqFinish

SpecPermute == InitPermute /\ [][NextPermute]_vars

\* ------------------------------------------------- group_dist_agg by itself
PairLists(nn) == UNION {[1 .. len -> Pairs(nn)] : len \in 1 .. MaxPairs}

InitAgg ==
    /\ ExtIdle
    /\ fn = "group_dist_agg"
    /\ pc = "a_loop"
    /\ draws = 0
    /\ n \in 2 .. MaxN
    /\ distance \in LineMatrices(n)
    /\ pairs \in PairLists(n)
    /\ statistic \in Statistics
    /\ grp = [x \in 1 .. Len(pairs) |-> 0]
    /\ k = 0
    /\ result = NoValue
    /\ group_1 = <<>> /\ group_2 = <<>> /\ two_sided = FALSE /\ permutations = 0
    /\ DistLocalsInit
    /\ CoIdle
    /\ TabIdle

\* group_dist_agg, one round of the loop of lines 65-66
AggFill ==
    /\ pc = "a_loop"
    /\ k < Len(pairs)
    /\ grp' = [grp EXCEPT ![k + 1] = GrpEntry(distance, pairs[k + 1])]
    /\ k' = k + 1
    /\ UNCHANGED <<extVars, pc, fn, draws, distVars, pairs, result, coVars, tabVars>>

\* group_dist_agg, lines 67-72
AggStatistic ==
    /\ pc = "a_loop"
    /\ k >= Len(pairs)
    /\ result' = ApplyStatistic(grp, statistic)
    /\ pc' = "done"
    /\ UNCHANGED <<extVars, fn, draws, distVars, pairs, grp, k, coVars, tabVars>>

NextAgg ==
    \/ AggFill
    \/ AggStatistic

SpecAgg == InitAgg /\ [][NextAgg]_vars

\* -------------------------------------------------------------- cooccur.py
\* a > cutoff, elementwise
AboveCutoff(x, cut) == [s \in DOMAIN x |-> x[s] > cut]

np_all(x) == \A s \in DOMAIN x : x[s]
np_any(x) == \E s \in DOMAIN x : x[s]

\* np.sum of a boolean array
RECURSIVE CountTrue(_)
CountTrue(x) ==
    IF x = <<>> THEN 0 ELSE (IF Head(x) THEN 1 ELSE 0) + CountTrue(Tail(x))

\* a & b
BothAbove(x, y) == [s \in DOMAIN x |-> x[s] /\ y[s]]

py_max(x, y) == IF x > y THEN x ELSE y

\* min that returns the larger argument
py_min_larger(x, y) == IF y < x THEN x ELSE y

py_min(x, y) == IF y < x THEN y ELSE x

\* the test of line 23 without np.all(b)
AbsentOrEverywhere_no_all_b(x, y) ==
    np_all(x) \/ ~np_any(x) \/ ~np_any(y)

\* the test of line 23
AbsentOrEverywhere(x, y) ==
    np_all(x) \/ np_all(y) \/ ~np_any(x) \/ ~np_any(y)

\* overlap(a, b, cutoff, psudo): raised, or the value returned
overlap(x, y, cut, ps) ==
    LET xa == AboveCutoff(x, cut)
        ya == AboveCutoff(y, cut)
    IN  IF AbsentOrEverywhere(xa, ya)
        THEN [raised |-> TRUE, value |-> NoValue]
        ELSE LET intersect == CountTrue(BothAbove(xa, ya))
                 union     == py_min(CountTrue(xa), CountTrue(ya))
             IN  [raised |-> FALSE, value |-> Div(intersect + ps, union + ps)]

\* np.random.permutation(b)
Shuffles(y) == {[s \in DOMAIN y |-> y[t[s] + 1]] : t \in Tuples(Len(y))}

\* 1 - dist, 1 - real without the subtraction
OneMinus_identity(x) == x

\* 1 - dist, 1 - real
OneMinus(x) == Sub(Num(1), x)

\* np.sum(dist >= real)
RECURSIVE CountAboveOrEqual(_, _)
CountAboveOrEqual(s, x) ==
    IF s = <<>> THEN 0
    ELSE (IF Greater(x, Head(s)) THEN 0 ELSE 1) + CountAboveOrEqual(Tail(s), x)

\* np.sum(dist > real)
RECURSIVE CountAbove(_, _)
CountAbove(s, x) ==
    IF s = <<>> THEN 0
    ELSE (IF Greater(Head(s), x) THEN 1 ELSE 0) + CountAbove(Tail(s), x)

Abundances == UNION {[1 .. len -> 0 .. MaxVal] : len \in 1 .. MaxLen}

\* the samples are listed in the order of their abundance of a
Ascending(x) == \A s \in 1 .. (Len(x) - 1) : x[s] <= x[s + 1]

\* the samples in which both x and y are above the cutoff are all the
\* samples in which one of them is
NestedAbove(x, y, cut) ==
    \/ \A s \in DOMAIN x : x[s] > cut => y[s] > cut
    \/ \A s \in DOMAIN x : y[s] > cut => x[s] > cut

DistIdle ==
    /\ n = 0 /\ distance = <<>> /\ group_1 = <<>> /\ group_2 = <<>>
    /\ statistic = "mean" /\ two_sided = FALSE /\ permutations = 0
    /\ DistLocalsInit

InitCooccur ==
    /\ ExtIdle
    /\ fn = "cooccur"
    /\ pc = "c_start"
    /\ draws = 0
    /\ a \in {x \in Abundances : Ascending(x)}
    /\ b \in {y \in Abundances : Len(y) = Len(a)}
    /\ cutoff \in {0, 1}
    /\ psudo \in 0 .. MaxPsudo
    /\ co_n \in 1 .. MaxShuffles
    /\ negate \in BOOLEAN
    /\ real = NoValue /\ dist = <<>> /\ nested = 0 /\ pval = NoValue
    /\ DistIdle
    /\ AggIdle
    /\ TabIdle

\* cooccur, lines 4-6
CooccurStart ==
    /\ pc = "c_start"
    /\ LET o == overlap(a, b, cutoff, psudo)
       IN  IF o.raised
           THEN pc' = "raised" /\ real' = real
           ELSE pc' = "c_loop" /\ real' = o.value
    /\ UNCHANGED <<extVars, fn, draws, distVars, aggVars, a, b, cutoff, psudo, co_n,
                   negate, dist, nested, pval, tabVars>>

\* cooccur, one round of the loop of lines 7-9
CooccurShuffle ==
    /\ pc = "c_loop"
    /\ Len(dist) < co_n
    /\ \E shuffled \in Shuffles(b) :
          LET o == overlap(a, shuffled, cutoff, psudo)
          IN  /\ nested' = nested + (IF NestedAbove(a, shuffled, cutoff) THEN 1 ELSE 0)
              /\ IF o.raised
                 THEN pc' = "raised" /\ dist' = dist
                 ELSE pc' = pc /\ dist' = Append(dist, o.value)
    /\ draws' = draws + 1
    /\ UNCHANGED <<extVars, fn, distVars, aggVars, a, b, cutoff, psudo, co_n, negate,
                   real, pval, tabVars>>

\* cooccur, lines 10-17
CooccurFinish ==
    /\ pc = "c_loop"
    /\ Len(dist) >= co_n
    /\ dist' = IF negate THEN [x \in DOMAIN dist |-> OneMinus(dist[x])] ELSE dist
    /\ real' = IF negate THEN OneMinus(real) ELSE real
    /\ pval' = Div(CountAbove(dist', real'), co_n)
    /\ pc' = "done"
    /\ UNCHANGED <<extVars, fn, draws, distVars, aggVars, a, b, cutoff, psudo, co_n,
                   negate, nested, tabVars>>

NextCooccur ==
    \/ CooccurStart
    \/ CooccurShuffle
    \/ CooccurFinish

SpecCooccur == InitCooccur /\ [][NextCooccur]_vars

\* ------------------------------------------------------------------ ngs.py
\* A file name is <<sample, tag, extension>>, e.g. <<"a", "R1", "fq.gz">> for
\* a_L001_R1_001.fq.gz; a tag other than R1 and R2 stands for a name without
\* the _L00x_R[12]_ separator.  A pattern is the set of tags of the names in
\* which re.search finds it.
FileNames == {"a", "b"} \X {"R1", "R2", "X"} \X {"fq.gz", "txt"}

\* get_id: re.split('_L00[0-9]_R[12]_', x)[0]
get_id(f) == IF f[2] \in {"R1", "R2"} THEN <<f[1]>> ELSE f

\* select: x.endswith('.fq.gz')
select(f) == f[3] = "fq.gz"

\* re.search(p, s)
re_search(pat, f) == f[2] \in pat

\* len(file_types) > len(pattern_types)
LengthMismatch_one_way(ft, pt) == Len(ft) > Len(pt)

\* len(file_types) != len(pattern_types)
LengthMismatch(ft, pt) == Len(ft) # Len(pt)

\* sort_by_pattern(patterns)(s): the exception raised, or the key returned
sort_key(patterns, f) ==
    LET l == {x \in 1 .. Len(patterns) : re_search(patterns[x], f)}
    IN  IF Cardinality(l) > 1 THEN [exc |-> "ValueError", key |-> 0]
        ELSE IF l = {} THEN [exc |-> "IndexError", key |-> 0]
        ELSE [exc |-> "", key |-> (CHOOSE x \in l : TRUE) - 1]

\* list.sort computes the key of every element, in list order, before sorting
RECURSIVE FirstKeyError(_, _)
FirstKeyError(patterns, files) ==
    IF files = <<>> THEN ""
    ELSE IF sort_key(patterns, Head(files)).exc # ""
         THEN sort_key(patterns, Head(files)).exc
         ELSE FirstKeyError(patterns, Tail(files))

\* insertion of f before the files of the same key
RECURSIVE InsertByKey_before_equal(_, _, _)
InsertByKey_before_equal(patterns, f, files) ==
    IF files = <<>> THEN <<f>>
    ELSE IF sort_key(patterns, f).key <= sort_key(patterns, Head(files)).key
         THEN <<f>> \o files
         ELSE <<Head(files)>> \o InsertByKey_before_equal(patterns, f, Tail(files))

\* stable insertion of f into a list sorted by key
RECURSIVE InsertByKey(_, _, _)
InsertByKey(patterns, f, files) ==
    IF files = <<>> THEN <<f>>
    ELSE IF sort_key(patterns, f).key < sort_key(patterns, Head(files)).key
         THEN <<f>> \o files
         ELSE <<Head(files)>> \o InsertByKey(patterns, f, Tail(files))

\* files.sort(key=sorting), a stable sort
RECURSIVE SortByKey(_, _)
SortByKey(patterns, files) ==
    IF files = <<>> THEN <<>>
    ELSE InsertByKey(patterns, files[Len(files)],
                     SortByKey(patterns, SubSeq(files, 1, Len(files) - 1)))

\* os.listdir(d): the names in arbitrary order
Listings(dir) ==
    {l \in [1 .. Cardinality(dir) -> dir] : \A x, y \in DOMAIN l : l[x] = l[y] => x = y}

\* number of columns of pd.DataFrame.from_dict(samples, orient='index')
RECURSIVE FrameWidth(_, _)
FrameWidth(smp, keys) ==
    IF keys = <<>> THEN 0
    ELSE py_max(Len(smp[Head(keys)]), FrameWidth(smp, Tail(keys)))

Missing == <<>>

\* rows of pd.DataFrame.from_dict(samples, orient='index')
FrameRows(smp, keys, width) ==
    [sid \in {keys[x] : x \in DOMAIN keys} |->
        [c \in 1 .. width |-> IF c <= Len(smp[sid]) THEN smp[sid][c] ELSE Missing]]

FileTypeLists    == {<<>>, <<"t1">>, <<"t1", "t2">>}
PatternTypeLists == {<<>>, <<{"R1"}>>, <<{"R1"}, {"R2"}>>, <<{"R1"}, {"R1", "R2"}>>}

RECURSIVE DirsOfSize(_, _)
DirsOfSize(S, size) ==
    IF size = 0 THEN {{}}
    ELSE IF size > Cardinality(S) THEN {}
    ELSE LET x == CHOOSE c \in S : TRUE
         IN  {s \cup {x} : s \in DirsOfSize(S \ {x}, size - 1)}
             \cup DirsOfSize(S \ {x}, size)

InitTable ==
    /\ ExtIdle
    /\ fn = "create_sample_table"
    /\ pc = "t_check"
    /\ draws = 0
    /\ d \in UNION {DirsOfSize(FileNames, size) : size \in 0 .. MaxFiles}
    /\ file_types \in FileTypeLists
    /\ pattern_types \in PatternTypeLists
    /\ negate \in BOOLEAN
    /\ listing = <<>> /\ samples = <<>> /\ sids = <<>> /\ sorted_n = 0
    /\ df = <<>> /\ exc = ""
    /\ a = <<>> /\ b = <<>> /\ cutoff = 0 /\ psudo = 0 /\ co_n = 0
    /\ real = NoValue /\ dist = <<>> /\ nested = 0 /\ pval = NoValue
    /\ DistIdle
    /\ AggIdle

\* create_sample_table, lines 153-160
TableCheck ==
    /\ pc = "t_check"
    /\ IF LengthMismatch(file_types, pattern_types)
       THEN pc' = "raised" /\ exc' = "ValueError"
       ELSE pc' = "t_listdir" /\ exc' = exc
    /\ UNCHANGED <<extVars, fn, draws, distVars, aggVars, coVars, d, file_types,
                   pattern_types, listing, samples, sids, sorted_n, df>>

\* create_sample_table, line 162: os.listdir(d)
TableListdir ==
    /\ pc = "t_listdir"
    /\ listing' \in Listings(d)
    /\ pc' = "t_loop"
    /\ UNCHANGED <<extVars, fn, draws, distVars, aggVars, coVars, d, file_types,
                   pattern_types, samples, sids, sorted_n, df, exc>>

\* create_sample_table, one round of the loop of lines 162-172
TableFile ==
    /\ pc = "t_loop"
    /\ listing # <<>>
    /\ LET f    == Head(listing)
           flag == IF negate THEN ~select(f) ELSE select(f)
           sid  == get_id(f)
       IN  IF flag
           THEN IF \E x \in DOMAIN sids : sids[x] = sid
                THEN /\ samples' = [samples EXCEPT ![sid] = Append(@, f)]
                     /\ sids' = sids
                ELSE /\ samples' = [s \in DOMAIN samples \cup {sid} |->
                                       IF s = sid THEN <<f>> ELSE samples[s]]
                     /\ sids' = Append(sids, sid)
           ELSE samples' = samples /\ sids' = sids
    /\ listing' = Tail(listing)
    /\ UNCHANGED <<extVars, pc, fn, draws, distVars, aggVars, coVars, d, file_types,
                   pattern_types, sorted_n, df, exc>>

\* create_sample_table, one round of the loop of lines 174-183
TableSort ==
    /\ pc = "t_loop"
    /\ listing = <<>>
    /\ sorted_n < Len(sids)
    /\ LET sid == sids[sorted_n + 1]
           err == FirstKeyError(pattern_types, samples[sid])
       IN  IF err # ""
           THEN pc' = "raised" /\ exc' = err /\ samples' = samples
           ELSE /\ pc' = pc /\ exc' = exc
                /\ samples' = [samples EXCEPT
                                  ![sid] = SortByKey(pattern_types, samples[sid])]
    /\ sorted_n' = sorted_n + 1
    /\ UNCHANGED <<extVars, fn, draws, distVars, aggVars, coVars, d, file_types,
                   pattern_types, listing, sids, df>>

\* create_sample_table, lines 185-188
TableFrame ==
    /\ pc = "t_loop"
    /\ listing = <<>>
    /\ sorted_n >= Len(sids)
    /\ LET width == FrameWidth(samples, sids)
       IN  IF width # Len(file_types)
           THEN pc' = "raised" /\ exc' = "ValueError" /\ df' = df
           ELSE pc' = "done" /\ exc' = exc /\ df' = FrameRows(samples, sids, width)
    /\ UNCHANGED <<extVars, fn, draws, distVars, aggVars, coVars, d, file_types,
                   pattern_types, listing, samples, sids, sorted_n>>

NextTable ==
    \/ TableCheck
    \/ TableListdir
    \/ TableFile
    \/ TableSort
    \/ TableFrame

SpecTable == InitTable /\ [][NextTable]_vars

\* ------------------------------------------------ ngs.py, split_paired_end
\* A fastq record is <<id, strand, body>>: the header line "@id strand:...",
\* then the sequence, "+" and quality lines, which body stands for.
Records == {"a", "b"} \X {"1", "2"} \X {"x", "y"}

\* order of the strings that occur in records
StrRank(str) ==
    CASE str = "" -> 0
      [] str = "1" -> 1 [] str = "2" -> 2
      [] str = "A" -> 3 [] str = "C" -> 4
      [] str = "a" -> 5 [] str = "b" -> 6
      [] str = "d" -> 7 [] str = "s" -> 8
      [] str = "x" -> 9 [] str = "y" -> 10

\* list < list of Python, on the lines of two records
RecordLess(x, y) ==
    \/ StrRank(x[1]) < StrRank(y[1])
    \/ x[1] = y[1] /\ StrRank(x[2]) < StrRank(y[2])
    \/ x[1] = y[1] /\ x[2] = y[2] /\ StrRank(x[3]) < StrRank(y[3])

RECURSIVE InsertRecord(_, _)
InsertRecord(x, s) ==
    IF s = <<>> THEN <<x>>
    ELSE IF RecordLess(x, Head(s)) THEN <<x>> \o s
    ELSE <<Head(s)>> \o InsertRecord(x, Tail(s))

\* seqs.sort()
RECURSIVE SortRecords(_)
SortRecords(s) ==
    IF s = <<>> THEN <<>>
    ELSE InsertRecord(s[Len(s)], SortRecords(SubSeq(s, 1, Len(s) - 1)))

\* key of itertools.groupby: seq[0].split(None, 1)[0]
seq_id(x) == x[1]

\* read[0].split()[1][0]
strand(x) == x[2]

\* length of the first group itertools.groupby yields from s
RECURSIVE GroupLen(_)
GroupLen(s) ==
    IF Len(s) <= 1 THEN Len(s)
    ELSE IF seq_id(s[2]) = seq_id(s[1]) THEN 1 + GroupLen(Tail(s))
    ELSE 1

FastqFiles == UNION {[1 .. len -> Records] : len \in 0 .. MaxReads}

OutputNames == <<"r1", "r2", "r1_unpaired", "r2_unpaired">>

OldIdle == DistIdle /\ AggIdle /\ CoIdle /\ TabIdle

InitPaired ==
    /\ fn = "split_paired_end"
    /\ pc = "pe_read"
    /\ draws = 0
    /\ fastq \in FastqFiles
    /\ seqs = <<>> /\ r1 = <<>> /\ r2 = <<>>
    /\ r1_unpaired = <<>> /\ r2_unpaired = <<>> /\ pe_files = <<>>
    /\ OldIdle
    /\ OthersIdle("split_paired_end")

\* split_paired_end, lines 53-58
PairedRead ==
    /\ pc = "pe_read"
    /\ seqs' = SortRecords(fastq)
    /\ pc' = "pe_loop"
    /\ UNCHANGED <<fn, draws, distVars, aggVars, coVars, tabVars, jobVars, parseVars, flattenVars, splitVars, equalVars, n50Vars, sortVars, fastq, r1,
                   r2, r1_unpaired, r2_unpaired, pe_files>>

\* split_paired_end, one round of the loop of lines 60-76; seqs keeps the
\* records groupby has not yielded yet
PairedGroup ==
    /\ pc = "pe_loop"
    /\ seqs # <<>>
    /\ LET len   == GroupLen(seqs)
           reads == SubSeq(seqs, 1, len)
       IN  /\ seqs' = SubSeq(seqs, len + 1, Len(seqs))
           /\ IF len = 2
              THEN /\ r1' = Append(r1, reads[1])
                   /\ r2' = Append(r2, reads[2])
                   /\ UNCHANGED <<pc, r1_unpaired, r2_unpaired>>
              ELSE IF len = 1
              THEN /\ r1_unpaired' = IF strand(reads[1]) = "1"
                                     THEN Append(r1_unpaired, reads[1])
                                     ELSE r1_unpaired
                   /\ r2_unpaired' = IF strand(reads[1]) # "1"
                                        /\ strand(reads[1]) = "2"
                                     THEN Append(r2_unpaired, reads[1])
                                     ELSE r2_unpaired
                   /\ UNCHANGED <<pc, r1, r2>>
              ELSE /\ pc' = "raised"
                   /\ UNCHANGED <<r1, r2, r1_unpaired, r2_unpaired>>
    /\ UNCHANGED <<fn, draws, distVars, aggVars, coVars, tabVars, jobVars, parseVars, flattenVars, splitVars, equalVars, n50Vars, sortVars, fastq,
                   pe_files>>

\* split_paired_end, lines 78-85
PairedWrite ==
    /\ pc = "pe_loop"
    /\ seqs = <<>>
    /\ LET lists == <<r1, r2, r1_unpaired, r2_unpaired>>
       IN  pe_files' = [x \in 1 .. 4 |-> <<OutputNames[x], lists[x]>>]
    /\ pc' = "done"
    /\ UNCHANGED <<fn, draws, distVars, aggVars, coVars, tabVars, jobVars, parseVars, flattenVars, splitVars, equalVars, n50Vars, sortVars, fastq, seqs,
                   r1, r2, r1_unpaired, r2_unpaired>>

NextPaired ==
    \/ PairedRead
    \/ PairedGroup
    \/ PairedWrite

SpecPaired == InitPaired /\ [][NextPaired]_vars

\* ------------------------------------------------------ ngs.py, equal_seqs
\* A skbio sequence is <<characters, id, description, quality>>: id and
\* description are the entries of its metadata dict, quality its positional
\* metadata; AbsentKey stands for a key the sequence does not have.
AbsentKey == "<absent>"

SeqObjects ==
    {<<chars, md[1], md[2], quality>> :
        chars \in {"A", "C"},
        md \in {<<AbsentKey, AbsentKey>>, <<"s", "d">>},
        quality \in {AbsentKey, "I"}}

SeqCollections == UNION {[1 .. len -> SeqObjects] : len \in 0 .. MaxSeqs}

\* sortable_key(seq)
sortable_key(seq) ==
    <<seq[1],
      IF seq[2] # AbsentKey THEN seq[2] ELSE "",
      IF seq[3] # AbsentKey THEN seq[3] ELSE "">>

\* list < list of Python, on two sort keys
KeyLess(x, y) ==
    \/ StrRank(x[1]) < StrRank(y[1])
    \/ x[1] = y[1] /\ StrRank(x[2]) < StrRank(y[2])
    \/ x[1] = y[1] /\ x[2] = y[2] /\ StrRank(x[3]) < StrRank(y[3])

\* stable insertion of seq into a list sorted by sortable_key
RECURSIVE InsertSeq(_, _)
InsertSeq(seq, s) ==
    IF s = <<>> THEN <<seq>>
    ELSE IF KeyLess(sortable_key(seq), sortable_key(Head(s)))
         THEN <<seq>> \o s
         ELSE <<Head(s)>> \o InsertSeq(seq, Tail(s))

\* sorted(seqs, key=sortable_key), a stable sort
RECURSIVE SortSeqs(_)
SortSeqs(s) ==
    IF s = <<>> THEN <<>>
    ELSE InsertSeq(s[Len(s)], SortSeqs(SubSeq(s, 1, Len(s) - 1)))

\* i != j of skbio.Sequence: the characters, the metadata and the positional
\* metadata are compared
SequenceNotEqual(i, j) == i # j

InitEqual ==
    /\ fn = "equal_seqs"
    /\ pc = "eq_len"
    /\ draws = 0
    /\ seqs_1 \in SeqCollections
    /\ seqs_2 \in SeqCollections
    /\ sorted_1 = <<>> /\ sorted_2 = <<>> /\ eq_ret = NoValue
    /\ OldIdle
    /\ OthersIdle("equal_seqs")

\* equal_seqs, lines 25-26
EqualLen ==
    /\ pc = "eq_len"
    /\ IF Len(seqs_1) # Len(seqs_2)
       THEN pc' = "done" /\ eq_ret' = FALSE
       ELSE pc' = "eq_sort" /\ eq_ret' = eq_ret
    /\ UNCHANGED <<fn, draws, distVars, aggVars, coVars, tabVars, jobVars, parseVars, flattenVars, splitVars, pairedVars,
                   n50Vars, sortVars, seqs_1, seqs_2, sorted_1, sorted_2>>

\* equal_seqs, lines 38-39: the two sorted lists handed to zip
EqualSort ==
    /\ pc = "eq_sort"
    /\ sorted_1' = SortSeqs(seqs_1)
    /\ sorted_2' = SortSeqs(seqs_2)
    /\ pc' = "eq_loop"
    /\ UNCHANGED <<fn, draws, distVars, aggVars, coVars, tabVars, jobVars, parseVars, flattenVars, splitVars, pairedVars,
                   n50Vars, sortVars, seqs_1, seqs_2, eq_ret>>

\* equal_seqs, one round of the loop of lines 38-41
EqualCompare ==
    /\ pc = "eq_loop"
    /\ sorted_1 # <<>> /\ sorted_2 # <<>>
    /\ IF SequenceNotEqual(Head(sorted_1), Head(sorted_2))
       THEN pc' = "done" /\ eq_ret' = FALSE
       ELSE pc' = pc /\ eq_ret' = eq_ret
    /\ sorted_1' = Tail(sorted_1)
    /\ sorted_2' = Tail(sorted_2)
    /\ UNCHANGED <<fn, draws, distVars, aggVars, coVars, tabVars, jobVars, parseVars, flattenVars, splitVars, pairedVars,
                   n50Vars, sortVars, seqs_1, seqs_2>>

\* equal_seqs, line 42
EqualReturn ==
    /\ pc = "eq_loop"
    /\ ~(sorted_1 # <<>> /\ sorted_2 # <<>>)
    /\ pc' = "done"
    /\ eq_ret' = TRUE
    /\ UNCHANGED <<fn, draws, distVars, aggVars, coVars, tabVars, jobVars, parseVars, flattenVars, splitVars, pairedVars,
                   n50Vars, sortVars, seqs_1, seqs_2, sorted_1, sorted_2>>

NextEqual ==
    \/ EqualLen
    \/ EqualSort
    \/ EqualCompare
    \/ EqualReturn

SpecEqual == InitEqual /\ [][NextEqual]_vars

\* ----------------------------------------------------- ngs.py, compute_n50
ContigLists == UNION {[1 .. len -> 0 .. MaxContigLen] : len \in 0 .. MaxContigs}

\* the items a pass over the argument still yields: a list is read from its
\* start by every pass, an iterator hands out each item once
Remaining(arg, iterator, taken) ==
    IF iterator THEN SubSeq(arg, taken + 1, Len(arg)) ELSE arg

\* i > cutoff
KeepContig_above(i, cut) == i > cut

\* i >= cutoff
KeepContig(i, cut) == i >= cut

\* [i for i in nums if i >= cutoff]
RECURSIVE FilterContigs(_, _)
FilterContigs(s, cut) ==
    IF s = <<>> THEN <<>>
    ELSE IF KeepContig(Head(s), cut)
         THEN <<Head(s)>> \o FilterContigs(Tail(s), cut)
         ELSE FilterContigs(Tail(s), cut)

RECURSIVE InsertReverse(_, _)
InsertReverse(x, s) ==
    IF s = <<>> THEN <<x>>
    ELSE IF x > Head(s) THEN <<x>> \o s
    ELSE <<Head(s)>> \o InsertReverse(x, Tail(s))

\* sorted(nums, reverse=True)
RECURSIVE SortedReverse(_)
SortedReverse(s) ==
    IF s = <<>> THEN <<>>
    ELSE InsertReverse(s[Len(s)], SortedReverse(SubSeq(s, 1, Len(s) - 1)))

InitN50 ==
    /\ fn = "compute_n50"
    /\ pc = "n_filter"
    /\ draws = 0
    /\ nums_arg \in ContigLists
    /\ is_iterator \in BOOLEAN
    /\ n50_cutoff \in 0 .. MaxContigLen
    /\ consumed = 0 /\ nums = <<>> /\ n50_len = NoValue /\ length = 0
    /\ todo = <<>> /\ n50_ret = NoValue
    /\ OldIdle
    /\ OthersIdle("compute_n50")

\* compute_n50, line 112: one pass over the argument
N50Filter ==
    /\ pc = "n_filter"
    /\ LET rest == Remaining(nums_arg, is_iterator, consumed)
       IN  /\ nums' = FilterContigs(rest, n50_cutoff)
           /\ consumed' = consumed + Len(rest)
    /\ pc' = "n_half"
    /\ UNCHANGED <<fn, draws, distVars, aggVars, coVars, tabVars, jobVars, parseVars, flattenVars, splitVars, pairedVars,
                   equalVars, sortVars, nums_arg, is_iterator, n50_cutoff, n50_len,
                   length, todo, n50_ret>>

\* compute_n50, lines 113-115
N50Half ==
    /\ pc = "n_half"
    /\ n50_len' = Div(np_sum(nums), 2)
    /\ length' = 0
    /\ todo' = SortedReverse(nums)
    /\ pc' = "n_loop"
    /\ UNCHANGED <<fn, draws, distVars, aggVars, coVars, tabVars, jobVars, parseVars, flattenVars, splitVars, pairedVars,
                   equalVars, sortVars, nums_arg, is_iterator, consumed, n50_cutoff,
                   nums, n50_ret>>

\* compute_n50, one round of the loop of lines 115-118
N50Round ==
    /\ pc = "n_loop"
    /\ todo # <<>>
    /\ length' = length + Head(todo)
    /\ todo' = Tail(todo)
    /\ IF ~Greater(n50_len, Num(length'))
       THEN pc' = "done" /\ n50_ret' = Head(todo)
       ELSE pc' = pc /\ n50_ret' = n50_ret
    /\ UNCHANGED <<fn, draws, distVars, aggVars, coVars, tabVars, jobVars, parseVars, flattenVars, splitVars, pairedVars,
                   equalVars, sortVars, nums_arg, is_iterator, consumed, n50_cutoff,
                   nums, n50_len>>

\* compute_n50, lines 119-120
N50Empty ==
    /\ pc = "n_loop"
    /\ todo = <<>>
    /\ pc' = "done"
    /\ n50_ret' = 0
    /\ UNCHANGED <<fn, draws, distVars, aggVars, coVars, tabVars, jobVars, parseVars, flattenVars, splitVars, pairedVars,
                   equalVars, sortVars, nums_arg, is_iterator, consumed, n50_cutoff,
                   nums, n50_len, length, todo>>

NextN50 ==
    \/ N50Filter
    \/ N50Half
    \/ N50Round
    \/ N50Empty

SpecN50 == InitN50 /\ [][NextN50]_vars

\* ------------------------------------------------- ngs.py, sort_by_pattern
NamesToSort == {f \in FileNames : f[3] = "fq.gz"}

NameLists == UNION {[1 .. len -> NamesToSort] : len \in 0 .. MaxNames}

InitSort ==
    /\ fn = "sort_by_pattern"
    /\ pc = "sp_key"
    /\ draws = 0
    /\ sp_patterns \in PatternTypeLists
    /\ sp_input \in NameLists
    /\ sp_list = sp_input
    /\ sp_exc = ""
    /\ OldIdle
    /\ OthersIdle("sort_by_pattern")

\* match = sort_by_pattern(p), lines 191-218: the key function is returned
SortKeyFunction ==
    /\ pc = "sp_key"
    /\ pc' = "sp_sort"
    /\ UNCHANGED <<fn, draws, distVars, aggVars, coVars, tabVars, jobVars, parseVars, flattenVars, splitVars, pairedVars,
                   equalVars, n50Vars, sortVars>>

\* a.sort(key=match), lines 212-216 for every name and then the stable sort
SortList ==
    /\ pc = "sp_sort"
    /\ LET err == FirstKeyError(sp_patterns, sp_list)
       IN  IF err # ""
           THEN pc' = "raised" /\ sp_exc' = err /\ sp_list' = sp_list
           ELSE /\ pc' = "done" /\ sp_exc' = sp_exc
                /\ sp_list' = SortByKey(sp_patterns, sp_list)
    /\ UNCHANGED <<fn, draws, distVars, aggVars, coVars, tabVars, jobVars, parseVars, flattenVars, splitVars, pairedVars,
                   equalVars, n50Vars, sp_patterns, sp_input>>

NextSort ==
    \/ SortKeyFunction
    \/ SortList

SpecSort == InitSort /\ [][NextSort]_vars

\* ------------------------------------------------------------- splitter.py
\* A line is <<id, mark, "\n">>: id is its first field, mark tells what it
\* starts with (">" a header, "/" the tail "//", "#" a comment, "." none of
\* them).  construct is None or lambda x: x.strip(), which drops the newline;
\* ignore is None or lambda x: x.startswith('#').
StreamLines == {"p", "q"} \X {">", "/", "#", "."} \X {"\n"}

Streams == UNION {[1 .. len -> StreamLines] : len \in 0 .. MaxStream}

\* construct(line) of a split that leaves the line as it is
Construct_none(c, line) == line

\* lines 50-51: line = construct(line) unless construct is None
Construct(c, line) == IF c # "None" THEN <<line[1], line[2]>> ELSE line

\* line 44: ignore is not None and ignore(line)
Ignored(ig, line) == ig # "None" /\ line[2] = "#"

\* lambda s: s.startswith('>')
startswith_header(line) == line[2] = ">"

\* is_tail: lambda x: x == '//\n'
is_tail(line) == line[2] = "/"

\* identify: lambda x: x.split('\t')[0]
identify(line) == line[1]

\* AnotherEntryTail.__call__: the truth value returned and the new _flag
AnotherEntryTail(line, flg) ==
    IF is_tail(line) THEN [ret |-> FALSE, flg |-> TRUE]
    ELSE IF flg THEN [ret |-> TRUE, flg |-> FALSE]
    ELSE [ret |-> FALSE, flg |-> flg]

\* AnotherEntryID.__call__ that does not remember the ID it has seen
AnotherEntryID_forgets(line, idt) ==
    [ret |-> idt # identify(line), idt |-> idt]

\* AnotherEntryID.__call__: the value returned and the new _ident
AnotherEntryID(line, idt) ==
    IF idt = identify(line) THEN [ret |-> FALSE, idt |-> idt]
    ELSE [ret |-> TRUE, idt |-> identify(line)]

\* is_another(line): the truth value returned and the splitter's new state
CallIsAnother(kind, line, flg, idt) ==
    IF kind = "AnotherEntryTail"
    THEN [ret |-> AnotherEntryTail(line, flg).ret,
          flg |-> AnotherEntryTail(line, flg).flg, idt |-> idt]
    ELSE IF kind = "AnotherEntryID"
    THEN [ret |-> AnotherEntryID(line, idt).ret, flg |-> flg,
          idt |-> AnotherEntryID(line, idt).idt]
    ELSE [ret |-> startswith_header(line), flg |-> flg, idt |-> idt]

InitSplit ==
    /\ fn = "split"
    /\ pc = "sp_loop"
    /\ draws = 0
    /\ stream \in Streams
    /\ is_another \in {"startswith", "AnotherEntryTail", "AnotherEntryID"}
    /\ construct \in {"None", "strip"}
    /\ ignore \in {"None", "startswith"}
    /\ line_no = 0 /\ lines = <<>> /\ yielded = <<>>
    /\ _flag = FALSE /\ _ident = "None"
    /\ lines_at = <<>> /\ yielded_at = <<>> /\ another = {}
    /\ OldIdle
    /\ OthersIdle("split")

\* parse, one round of the loop of lines 43-52
SplitLine ==
    /\ pc = "sp_loop"
    /\ line_no < Len(stream)
    /\ line_no' = line_no + 1
    /\ LET line == stream[line_no + 1]
           call == CallIsAnother(is_another, line, _flag, _ident)
       IN  IF Ignored(ignore, line)
           THEN UNCHANGED <<lines, yielded, _flag, _ident, lines_at,
                            yielded_at, another>>
           ELSE /\ _flag' = call.flg
                /\ _ident' = call.idt
                /\ another' = IF call.ret THEN another \cup {line_no + 1}
                              ELSE another
                /\ IF call.ret /\ lines # <<>>
                   THEN /\ yielded' = Append(yielded, lines)
                        /\ yielded_at' = Append(yielded_at, lines_at)
                        /\ lines' = <<Construct(construct, line)>>
                        /\ lines_at' = <<line_no + 1>>
                   ELSE /\ yielded' = yielded
                        /\ yielded_at' = yielded_at
                        /\ lines' = Append(lines, Construct(construct, line))
                        /\ lines_at' = Append(lines_at, line_no + 1)
    /\ UNCHANGED <<pc, fn, draws, distVars, aggVars, coVars, tabVars, jobVars, parseVars, flattenVars,
                   pairedVars, equalVars, n50Vars, sortVars, stream,
                   is_another, construct, ignore>>

\* parse, lines 53-54
SplitEnd ==
    /\ pc = "sp_loop"
    /\ line_no >= Len(stream)
    /\ IF lines # <<>>
       THEN /\ yielded' = Append(yielded, lines)
            /\ yielded_at' = Append(yielded_at, lines_at)
       ELSE /\ yielded' = yielded
            /\ yielded_at' = yielded_at
    /\ pc' = "done"
    /\ UNCHANGED <<fn, draws, distVars, aggVars, coVars, tabVars, jobVars, parseVars, flattenVars, pairedVars,
                   equalVars, n50Vars, sortVars, stream, is_another,
                   construct, ignore, line_no, lines, _flag, _ident,
                   lines_at, another>>

NextSplit ==
    \/ SplitLine
    \/ SplitEnd

SpecSplit == InitSplit /\ [][NextSplit]_vars

\* ---------------------------------------------------------- util.py, flatten
\* A Python value is [t |-> type, v |-> characters, kids |-> elements]: an
\* int or a str has the characters of its value and no elements, a list or
\* a tuple has elements and no characters.
PyInt(v)   == [t |-> "int", v |-> <<v>>, kids |-> <<>>]
PyStr(v)   == [t |-> "str", v |-> v, kids |-> <<>>]
PyList(kids) == [t |-> "list", v |-> <<>>, kids |-> kids]
PyTuple(kids) == [t |-> "tuple", v |-> <<>>, kids |-> kids]

\* the elements flatten is tried on, cf. the doctests of lines 159-166
SampleValues ==
    { PyInt("1"),
      PyStr(<<"a", "b">>),
      PyTuple(<<PyInt("5"), PyInt("6")>>),
      PyList(<<PyInt("3"), PyStr(<<"a", "b">>)>>),
      PyList(<<PyTuple(<<PyInt("5"), PyInt("6")>>), PyInt("4")>>),
      PyList(<<PyList(<<PyInt("3")>>), PyTuple(<<>>)>>) }

ItemLists == UNION {[1 .. len -> SampleValues] : len \in 0 .. MaxItems}

\* ignore_types=(str, bytes), the default
DefaultIgnoreTypes == {"str", "bytes"}

IgnoreTypes == {DefaultIgnoreTypes, {}, {"tuple"}}

\* isinstance(x, Iterable) that does not take a str for an iterable
IsIterable_no_str(x) == x.t \in {"list", "tuple"}

\* isinstance(x, Iterable)
IsIterable(x) == x.t \in {"list", "tuple", "str"}

\* isinstance(x, ignore_types)
IsInstance(x, types) == x.t \in types

\* for x in items: a str yields its characters, each a str of length one
Elements(x) ==
    IF x.t = "str" THEN [c \in 1 .. Len(x.v) |-> PyStr(<<x.v[c]>>)]
    ELSE x.kids

InitFlatten ==
    /\ fn = "flatten"
    /\ pc = "f_loop"
    /\ draws = 0
    /\ items \in ItemLists
    /\ ignore_types \in IgnoreTypes
    /\ calls = <<[rest |-> items, ignore_types |-> ignore_types]>>
    /\ flat = <<>>
    /\ iterated = <<>>
    /\ OldIdle
    /\ OthersIdle("flatten")

\* flatten, lines 168-170: the innermost call visits an element it iterates;
\* flatten(x) is called without ignore_types, which is then the default
FlattenDescend ==
    /\ pc = "f_loop"
    /\ calls # <<>>
    /\ LET call == calls[Len(calls)]
       IN  /\ call.rest # <<>>
           /\ IsIterable(Head(call.rest))
           /\ ~IsInstance(Head(call.rest), call.ignore_types)
           /\ calls' = Append(
                  [calls EXCEPT ![Len(calls)].rest = Tail(call.rest)],
                  [rest |-> Elements(Head(call.rest)),
                   ignore_types |-> DefaultIgnoreTypes])
           /\ iterated' = Append(iterated, Head(call.rest))
    /\ UNCHANGED <<pc, fn, draws, distVars, aggVars, coVars, tabVars, jobVars, parseVars,
                   pairedVars, equalVars, n50Vars, sortVars, splitVars,
                   items, ignore_types, flat>>

\* flatten, lines 168-172: the innermost call yields an element
FlattenYield ==
    /\ pc = "f_loop"
    /\ calls # <<>>
    /\ LET call == calls[Len(calls)]
       IN  /\ call.rest # <<>>
           /\ ~(IsIterable(Head(call.rest))
                  /\ ~IsInstance(Head(call.rest), call.ignore_types))
           /\ calls' = [calls EXCEPT ![Len(calls)].rest = Tail(call.rest)]
           /\ flat' = Append(flat, Head(call.rest))
    /\ UNCHANGED <<pc, fn, draws, distVars, aggVars, coVars, tabVars, jobVars, parseVars,
                   pairedVars, equalVars, n50Vars, sortVars, splitVars,
                   items, ignore_types, iterated>>

\* flatten, line 168: the innermost call has visited all its items
FlattenReturn ==
    /\ pc = "f_loop"
    /\ calls # <<>>
    /\ calls[Len(calls)].rest = <<>>
    /\ calls' = SubSeq(calls, 1, Len(calls) - 1)
    /\ pc' = IF Len(calls) = 1 THEN "done" ELSE pc
    /\ UNCHANGED <<fn, draws, distVars, aggVars, coVars, tabVars, jobVars, parseVars, pairedVars,
                   equalVars, n50Vars, sortVars, splitVars, items,
                   ignore_types, flat, iterated>>

NextFlatten ==
    \/ FlattenDescend
    \/ FlattenYield
    \/ FlattenReturn

SpecFlatten == InitFlatten /\ [][NextFlatten]_vars

\* ------------------------------------------------ util.py, parse_function_call
\* expr is a sequence of characters; "a" stands for any character that is
\* not a space, a parenthesis or a comma.
ExprChars == {"a", "(", ")", ",", " "}

Exprs == UNION {[1 .. len -> ExprChars] : len \in 0 .. MaxExpr}

\* char.isspace()
isspace(char) == char = " "

\* lines 196-198: if char in '(),' and item: items.append(item); item = ''
FlushItem(call, char) ==
    IF char \in {"(", ")", ","} /\ call.item # <<>>
    THEN [items |-> Append(call.items, PyStr(call.item)), item |-> <<>>]
    ELSE call

\* lines 208-210: if item: items.append(item); return items, False
ItemsAtEnd(call) ==
    IF call.item # <<>> THEN Append(call.items, PyStr(call.item))
    ELSE call.items

InitParse ==
    /\ fn = "parse_function_call"
    /\ pc = "p_loop"
    /\ draws = 0
    /\ expr \in Exprs
    /\ chars_read = 0
    /\ parsers = <<[items |-> <<>>, item |-> <<>>]>>
    /\ parsed = NoValue
    /\ parse_exc = ""
    /\ OldIdle
    /\ OthersIdle("parse_function_call")

\* parser, lines 193-195: a space is skipped
ParseSpace ==
    /\ pc = "p_loop"
    /\ chars_read < Len(expr)
    /\ isspace(expr[chars_read + 1])
    /\ chars_read' = chars_read + 1
    /\ UNCHANGED <<pc, fn, draws, distVars, aggVars, coVars, tabVars, jobVars,
                   pairedVars, equalVars, n50Vars, sortVars, splitVars,
                   flattenVars, expr, parsers, parsed, parse_exc>>

\* parser, lines 196-200: '(' starts a call of parser on the same iterator
ParseOpen ==
    /\ pc = "p_loop"
    /\ chars_read < Len(expr)
    /\ expr[chars_read + 1] = "("
    /\ chars_read' = chars_read + 1
    /\ parsers' = Append(
           [parsers EXCEPT ![Len(parsers)] = FlushItem(@, "(")],
           [items |-> <<>>, item |-> <<>>])
    /\ UNCHANGED <<pc, fn, draws, distVars, aggVars, coVars, tabVars, jobVars,
                   pairedVars, equalVars, n50Vars, sortVars, splitVars,
                   flattenVars, expr, parsed, parse_exc>>

\* parser, lines 196-198 and 204-205: ')' returns items, True; the caller
\* appends them (lines 200-203), or parse_function_call returns them (line 211)
ParseClose ==
    /\ pc = "p_loop"
    /\ chars_read < Len(expr)
    /\ expr[chars_read + 1] = ")"
    /\ chars_read' = chars_read + 1
    /\ LET returned == FlushItem(parsers[Len(parsers)], ")").items
       IN  IF Len(parsers) = 1
           THEN /\ pc' = "done"
                /\ parsed' = PyList(returned)
                /\ parsers' = <<>>
           ELSE /\ pc' = pc
                /\ parsed' = parsed
                /\ parsers' =
                       [SubSeq(parsers, 1, Len(parsers) - 1)
                           EXCEPT ![Len(parsers) - 1].items =
                                      Append(@, PyList(returned))]
    /\ UNCHANGED <<fn, draws, distVars, aggVars, coVars, tabVars, jobVars, pairedVars,
                   equalVars, n50Vars, sortVars, splitVars, flattenVars,
                   expr, parse_exc>>

\* parser, lines 196-198 and 206-207: a comma ends the item, any other
\* character is added to it
ParseOther ==
    /\ pc = "p_loop"
    /\ chars_read < Len(expr)
    /\ LET char == expr[chars_read + 1]
       IN  /\ ~isspace(char) /\ char # "(" /\ char # ")"
           /\ parsers' = [parsers EXCEPT ![Len(parsers)] =
                  IF char # ","
                  THEN [FlushItem(@, char) EXCEPT !.item = Append(@, char)]
                  ELSE FlushItem(@, char)]
    /\ chars_read' = chars_read + 1
    /\ UNCHANGED <<pc, fn, draws, distVars, aggVars, coVars, tabVars, jobVars,
                   pairedVars, equalVars, n50Vars, sortVars, splitVars,
                   flattenVars, expr, parsed, parse_exc>>

\* parser, lines 208-210 when the iterator is exhausted: the innermost call
\* returns items, False; its caller raises (lines 201-202), or
\* parse_function_call returns the items (line 211)
ParseEnd ==
    /\ pc = "p_loop"
    /\ chars_read >= Len(expr)
    /\ IF Len(parsers) = 1
       THEN /\ pc' = "done"
            /\ parsed' = PyList(ItemsAtEnd(parsers[1]))
            /\ parse_exc' = parse_exc
            /\ parsers' = <<>>
       ELSE /\ pc' = "raised"
            /\ parse_exc' = "ValueError: Unbalanced parentheses"
            /\ parsed' = parsed
            /\ parsers' = <<>>
    /\ UNCHANGED <<fn, draws, distVars, aggVars, coVars, tabVars, jobVars, pairedVars,
                   equalVars, n50Vars, sortVars, splitVars, flattenVars,
                   expr, chars_read>>

NextParse ==
    \/ ParseSpace
    \/ ParseOpen
    \/ ParseClose
    \/ ParseOther
    \/ ParseEnd

SpecParse == InitParse /\ [][NextParse]_vars

\* ------------------------------------------------------- pbs.py, JobArrays
\* metadata is the list of the row names (sample IDs) of the data frame.
\* A string written to fh is [kind, first, last, runs, script, comment]:
\*   "header"   the formatted pbs_header, with '#PBS -t first-last%runs'
\*   "open"     'scripts=('
\*   "entry"    '"script"  # comment\n'
\*   "close"    ')\n'
\*   "bash"     'bash ${scripts[$PBS_ARRAYID]}'
RowNames == {"s1", "s2", "s3"}

MetadataTables == UNION {[1 .. len -> RowNames] : len \in 0 .. MaxRows}

\* self._set_default('runs', 10)
DefaultRuns == 10

\* the kwargs handed to __init__: None, or a dict that sets runs
KwargsGiven == {<<>>, [runs |-> 2]}

WrittenString(kind, first, last, runs, script, comment) ==
    [kind |-> kind, first |-> first, last |-> last, runs |-> runs,
     script |-> script, comment |-> comment]

\* self.pbs_header.format(**self.kwargs), line 39: '#PBS -t 0-{total}%{runs}'
pbs_header(kw) == WrittenString("header", 0, kw.total, kw.runs, "", 0)

\* create_cmd(rowname, row, input_columns): the command of one sample
create_cmd(rowname) == rowname

\* '"{script}"  # {i}\n'.format(script=script, i=i+1), i counted from 0
ScriptEntry(script, i) == WrittenString("entry", 0, 0, 0, script, i + 1)

InitJob ==
    /\ fn = "JobArrays"
    /\ pc = "j_init"
    /\ draws = 0
    /\ metadata \in MetadataTables
    /\ kwargs \in KwargsGiven
    /\ row_i = 0
    /\ fh = <<>>
    /\ OldIdle
    /\ OthersIdle("JobArrays")

\* JobArrays.__init__, lines 17-29
JobInit ==
    /\ pc = "j_init"
    /\ kwargs' = [total |-> Len(metadata),
                  runs  |-> IF kwargs = <<>> THEN DefaultRuns ELSE kwargs.runs]
    /\ pc' = "j_create"
    /\ UNCHANGED <<fn, draws, distVars, aggVars, coVars, tabVars, pairedVars,
                   equalVars, n50Vars, sortVars, splitVars, flattenVars,
                   parseVars, metadata, row_i, fh>>

\* JobArrays.create, lines 78-81
CreateHeader ==
    /\ pc = "j_create"
    /\ fh' = fh \o <<pbs_header(kwargs), WrittenString("open", 0, 0, 0, "", 0)>>
    /\ row_i' = 0
    /\ pc' = "j_loop"
    /\ UNCHANGED <<fn, draws, distVars, aggVars, coVars, tabVars, pairedVars,
                   equalVars, n50Vars, sortVars, splitVars, flattenVars,
                   parseVars, metadata, kwargs>>

\* JobArrays.create, one round of the loop of lines 82-84
CreateEntry ==
    /\ pc = "j_loop"
    /\ row_i < Len(metadata)
    /\ fh' = Append(fh, ScriptEntry(create_cmd(metadata[row_i + 1]), row_i))
    /\ row_i' = row_i + 1
    /\ UNCHANGED <<pc, fn, draws, distVars, aggVars, coVars, tabVars,
                   pairedVars, equalVars, n50Vars, sortVars, splitVars,
                   flattenVars, parseVars, metadata, kwargs>>

\* JobArrays.create, lines 85-86
CreateClose ==
    /\ pc = "j_loop"
    /\ row_i >= Len(metadata)
    /\ fh' = fh \o <<WrittenString("close", 0, 0, 0, "", 0),
                     WrittenString("bash", 0, 0, 0, "", 0)>>
    /\ pc' = "done"
    /\ UNCHANGED <<fn, draws, distVars, aggVars, coVars, tabVars, pairedVars,
                   equalVars, n50Vars, sortVars, splitVars, flattenVars,
                   parseVars, metadata, kwargs, row_i>>

NextJob ==
    \/ JobInit
    \/ CreateHeader
    \/ CreateEntry
    \/ CreateClose

SpecJob == InitJob /\ [][NextJob]_vars

\* ================================================================== claims
\* Values are compared as fractions: v is a model value <<num, den>>, the
\* right-hand sides are built from sums and counts over index sets.
RatEq(v, w) == v[1] * w[2] = w[1] * v[2]
RatGt(v, w) == (v[1] * w[2] > w[1] * v[2])
RatAbs(v)   == <<IF v[1] < 0 THEN 0 - v[1] ELSE v[1], v[2]>>
RatSub(v, w) == <<v[1] * w[2] - w[1] * v[2], v[2] * w[2]>>
IdentityMap(nn) == [x \in Idx(nn) |-> x]
Bijections(nn) == {f \in [Idx(nn) -> Idx(nn)] : \A x, y \in Idx(nn) : f[x] = f[y] => x = y}

RECURSIVE NFactorial(_)
NFactorial(nn) == IF nn = 0 THEN 1 ELSE nn * NFactorial(nn - 1)

\* the distances of the pairs, one per pair, in the order given
ValuesOf(dm, g) == [x \in 1 .. Len(g) |-> dm[<<g[x][1], g[x][2]>>]]

RECURSIVE SumOver(_, _)
SumOver(vals, I) ==
    IF I = {} THEN 0
    ELSE LET x == CHOOSE c \in I : TRUE IN vals[x] + SumOver(vals, I \ {x})

\* the r-th smallest of vals
OrderStat(vals, r) ==
    CHOOSE v \in {vals[x] : x \in DOMAIN vals} :
        /\ Cardinality({x \in DOMAIN vals : vals[x] < v}) < r
        /\ Cardinality({x \in DOMAIN vals : vals[x] <= v}) >= r

StatisticOf(vals, stat) ==
    IF stat = "mean" THEN <<SumOver(vals, DOMAIN vals), Len(vals)>>
    ELSE IF stat = "median"
    THEN IF Len(vals) % 2 = 1 THEN <<OrderStat(vals, (Len(vals) + 1) \div 2), 1>>
         ELSE <<OrderStat(vals, Len(vals) \div 2)
                + OrderStat(vals, (Len(vals) \div 2) + 1), 2>>
    ELSE CallStatistic(stat, vals)

RelabelledBy(f, g) == [x \in 1 .. Len(g) |-> <<f[g[x][1]], f[g[x][2]]>>]

DeltaOf(dm, g1, g2, stat) ==
    RatSub(StatisticOf(ValuesOf(dm, g2), stat), StatisticOf(ValuesOf(dm, g1), stat))

\* C1: distance_uniq_permute_test raises ValueError exactly when
\* permutations > n! - 1, and when it raises nothing has been drawn from the
\* random generator, no relabelling has been used and no statistic computed.
C1_RaisesIffTooManyPermutations ==
    (fn = "distance_uniq_permute_test" /\ pc # "u_check") =>
        /\ (pc = "raised") <=> (permutations > NFactorial(n) - 1)
        /\ (pc = "raised") =>
              /\ draws = 0 /\ perm_set = {} /\ used = <<>> /\ delta_rand = <<>>
              /\ grp1 = NoValue /\ grp2 = NoValue /\ delta = NoValue /\ p = NoValue

C1_Witness ==
    /\ fn = "distance_uniq_permute_test" /\ pc = "raised"
    /\ n = 3 /\ permutations = 6

\* C2: the relabellings used by distance_uniq_permute_test to fill delta_rand
\* are bijections of 0..n-1, pairwise distinct, none of them the identity, and
\* there is one per requested permutation.
C2_DistinctNonIdentityRelabellings ==
    (fn = "distance_uniq_permute_test") =>
        /\ \A x \in 1 .. Len(used) :
              /\ used[x] \in Bijections(n)
              /\ used[x] # IdentityMap(n)
              /\ \A y \in 1 .. Len(used) : used[x] = used[y] => x = y
        /\ Len(delta_rand) = Len(used)
        /\ (pc = "done") => (Len(used) = permutations)

C2_Witness ==
    /\ fn = "distance_uniq_permute_test" /\ pc = "done"
    /\ Len(used) = 5 /\ n = 3

\* C3: distance_permute_test returns delta = statistic(group_2) -
\* statistic(group_1) and p = (number of permuted differences strictly greater
\* than delta) / (permutations + 1) when two_sided is false, and
\* p = (number of permuted differences of absolute value strictly greater
\* than |delta|) / (permutations + 1) when two_sided is true.
C3_PermuteTestResult ==
    (fn = "distance_permute_test" /\ pc = "done") =>
        /\ RatEq(delta, DeltaOf(distance, group_1, group_2, statistic))
        /\ Len(delta_rand) = permutations
        /\ two_sided =>
              RatEq(p, <<Cardinality({x \in 1 .. Len(delta_rand) :
                             RatGt(RatAbs(delta_rand[x]), RatAbs(delta))}),
                         permutations + 1>>)
        /\ ~two_sided =>
              RatEq(p, <<Cardinality({x \in 1 .. Len(delta_rand) :
                             RatGt(delta_rand[x], delta)}),
                         permutations + 1>>)

C3_Witness ==
    /\ fn = "distance_permute_test" /\ pc = "done" /\ two_sided
    /\ permutations = 2 /\ p = <<1, 3>>
    /\ delta[1] < 0

\* C4: group_dist_agg returns the statistic of the values distance[i, j], one
\* per pair in the order given: the arithmetic mean for 'mean', the median for
\* 'median', statistic(values) for a callable.
C4_GroupDistAgg ==
    (fn = "group_dist_agg" /\ pc = "done") =>
        /\ grp = ValuesOf(distance, pairs)
        /\ RatEq(result, StatisticOf(ValuesOf(distance, pairs), statistic))
        /\ result[2] > 0

C4_Witness ==
    /\ fn = "group_dist_agg" /\ pc = "done"
    /\ statistic = "median" /\ Len(pairs) = 2 /\ result = <<1, 2>>

\* C5: every entry of delta_rand is statistic(group_2 relabelled by f) -
\* statistic(group_1 relabelled by f) for the bijection f = idx_map of its
\* round, applied to both endpoints of every pair of both groups; entries
\* already written are never changed.
C5_RoundUsesOneBijection ==
    [][ /\ Len(delta_rand') >= Len(delta_rand)
        /\ SubSeq(delta_rand', 1, Len(delta_rand)) = delta_rand
        /\ (Len(delta_rand') > Len(delta_rand)) =>
              /\ Len(delta_rand') = Len(delta_rand) + 1
              /\ idx_map' \in Bijections(n)
              /\ RatEq(delta_rand'[Len(delta_rand')],
                       DeltaOf(distance, RelabelledBy(idx_map', group_1),
                               RelabelledBy(idx_map', group_2), statistic))
      ]_vars

C5_Witness ==
    /\ Len(delta_rand) >= 2
    /\ idx_map # IdentityMap(n)
    /\ delta_rand[1] # delta_rand[2]


\* the samples in which x is strictly above the cutoff
Above(x) == {s \in DOMAIN x : x[s] > cutoff}
Degenerate(x) == Above(x) = {} \/ Above(x) = DOMAIN x
Smaller(x, y) == IF x <= y THEN x ELSE y
Nested(x, y) == Above(x) \subseteq Above(y) \/ Above(y) \subseteq Above(x)

\* C6: cooccur raises ValueError, for either value of negate, whenever a or b
\* is above cutoff in no sample or in every sample; it raises in its first
\* call of overlap, before any shuffle is drawn.
C6_DegenerateRaises ==
    (fn = "cooccur" /\ pc # "c_start" /\ (Degenerate(a) \/ Degenerate(b))) =>
        /\ pc = "raised"
        /\ real = NoValue /\ dist = <<>> /\ pval = NoValue /\ draws = 0

C6_Witness ==
    /\ fn = "cooccur" /\ pc = "raised" /\ negate
    /\ ~Degenerate(a) /\ Above(b) = DOMAIN b /\ Len(b) = 3

\* C7: for non-degenerate inputs the observed score returned by cooccur is
\* (I + psudo) / (M + psudo), I the number of samples with both a and b above
\* cutoff and M the smaller of the two counts of samples above cutoff; with
\* negate it is 1 minus that value.
C7_ObservedScore ==
    (fn = "cooccur" /\ pc # "c_start" /\ ~Degenerate(a) /\ ~Degenerate(b)) =>
        LET I == Cardinality(Above(a) \cap Above(b))
            M == Smaller(Cardinality(Above(a)), Cardinality(Above(b)))
        IN  /\ pc # "raised"
            /\ (pc = "c_loop") => RatEq(real, <<I + psudo, M + psudo>>)
            /\ (pc = "done" /\ ~negate) => RatEq(real, <<I + psudo, M + psudo>>)
            /\ (pc = "done" /\ negate) => RatEq(real, <<M - I, M + psudo>>)
            /\ real[2] > 0

C7_Witness ==
    /\ fn = "cooccur" /\ pc = "done" /\ negate
    /\ Cardinality(Above(a)) = 2 /\ Cardinality(Above(b)) = 1
    /\ psudo = 1 /\ real = <<1, 2>>

C9_SameSamplesCoexist ==
    (fn = "cooccur" /\ pc = "done" /\ ~negate /\ Above(a) = Above(b)) =>
        (real = <<1, 1>> /\ pval = <<0, 1>>)

C9_Witness ==
    /\ fn = "cooccur" /\ pc = "done" /\ ~negate /\ Above(a) = Above(b)
    /\ co_n = 2 /\ draws = 2 /\ nested = 1

\* C10: create_sample_table raises ValueError when the number of file_types
\* differs from the number of pattern_types, before the directory is listed
\* or any file name is examined.
C10_LengthMismatchRaisesFirst ==
    (fn = "create_sample_table" /\ pc # "t_check"
        /\ Len(file_types) # Len(pattern_types)) =>
        /\ pc = "raised" /\ exc = "ValueError"
        /\ listing = <<>> /\ samples = <<>> /\ sids = <<>> /\ sorted_n = 0
        /\ df = <<>>

C10_Witness ==
    /\ fn = "create_sample_table" /\ pc = "raised"
    /\ Len(file_types) < Len(pattern_types)
    /\ Cardinality(d) = 2

\* C11: the table returned by create_sample_table has one row per sample ID
\* of the selected files, and every entry of the column named file_types[k]
\* that is not missing is a selected file of the row's sample whose name
\* matches pattern_types[k].
SelectedFiles == {f \in d : IF negate THEN ~select(f) ELSE select(f)}

C11_ColumnsMatchTheirPattern ==
    (fn = "create_sample_table" /\ pc = "done") =>
        /\ DOMAIN df = {get_id(f) : f \in SelectedFiles}
        /\ \A sid \in DOMAIN df : \A c \in DOMAIN df[sid] :
               df[sid][c] # Missing =>
                   /\ df[sid][c] \in SelectedFiles
                   /\ get_id(df[sid][c]) = sid
                   /\ c <= Len(pattern_types)
                   /\ re_search(pattern_types[c], df[sid][c])

\* C12: split_paired_end routes reads by ID: for every read ID that occurs in
\* exactly two records, the strand-1 record is written to the r1 file and the
\* strand-2 record to the r2 file at the same position in both files; a
\* record whose ID occurs once is written to r1_unpaired when its strand is 1
\* and to r2_unpaired when its strand is 2; the function returns the four
\* file names in the order r1, r2, r1_unpaired, r2_unpaired.
Occurrences(id) == {x \in DOMAIN fastq : fastq[x][1] = id}
Written(num) == pe_files[num][2]
HoldsOnly(num, rec) ==
    \A x \in 1 .. 4 : \A y \in DOMAIN Written(x) :
        Written(x)[y] = rec => x = num

C12_RoutedByStrand ==
    (fn = "split_paired_end" /\ pc = "done") =>
        /\ [x \in 1 .. 4 |-> pe_files[x][1]]
               = <<"r1", "r2", "r1_unpaired", "r2_unpaired">>
        /\ Len(Written(1)) = Len(Written(2))
        /\ \A x \in DOMAIN fastq :
              LET rec == fastq[x]
                  occ == Cardinality(Occurrences(rec[1]))
              IN  /\ (occ = 2 /\ rec[2] = "1") =>
                         \E y \in DOMAIN Written(1) :
                             /\ Written(1)[y] = rec
                             /\ Written(2)[y][1] = rec[1]
                             /\ Written(2)[y][2] = "2"
                  /\ (occ = 2 /\ rec[2] = "2") =>
                         \E y \in DOMAIN Written(2) :
                             /\ Written(2)[y] = rec
                             /\ Written(1)[y][1] = rec[1]
                             /\ Written(1)[y][2] = "1"
                  /\ (occ = 1 /\ rec[2] = "1") => HoldsOnly(3, rec)
                       /\ \E y \in DOMAIN Written(3) : Written(3)[y] = rec
                  /\ (occ = 1 /\ rec[2] = "2") => HoldsOnly(4, rec)
                       /\ \E y \in DOMAIN Written(4) : Written(4)[y] = rec

\* C13: equal_seqs(seqs_1, seqs_2) returns True exactly when the two
\* collections have the same length and are equal as multisets of (sequence
\* characters, id, description) triples; the order of the sequences in either
\* collection does not change the result.
Triple(seq) ==
    <<seq[1], IF seq[2] = AbsentKey THEN "" ELSE seq[2],
              IF seq[3] = AbsentKey THEN "" ELSE seq[3]>>
TripleCount(s, t) == Cardinality({x \in DOMAIN s : Triple(s[x]) = t})
SameTriples(s, t) ==
    \A x \in DOMAIN s \cup DOMAIN t :
        /\ x \in DOMAIN s => TripleCount(s, Triple(s[x])) = TripleCount(t, Triple(s[x]))
        /\ x \in DOMAIN t => TripleCount(s, Triple(t[x])) = TripleCount(t, Triple(t[x]))

C13_EqualAsMultisetsOfTriples ==
    (fn = "equal_seqs" /\ pc = "done") =>
        (eq_ret = TRUE <=> (Len(seqs_1) = Len(seqs_2) /\ SameTriples(seqs_1, seqs_2)))

\* C14: compute_n50(nums, cutoff) ignores lengths below cutoff and returns the
\* largest length L among the remaining ones such that the lengths >= L sum
\* to at least half of the total of the remaining lengths; it returns 0 when
\* no length is >= cutoff, and gives the same result for a one-pass iterator
\* as for a list.
RECURSIVE TotalOf(_)
TotalOf(S) ==
    IF S = {} THEN 0
    ELSE LET x == CHOOSE y \in S : TRUE IN nums_arg[x] + TotalOf(S \ {x})
Considered == {x \in DOMAIN nums_arg : nums_arg[x] >= n50_cutoff}
CoversHalf(L) ==
    2 * TotalOf({x \in Considered : nums_arg[x] >= L}) >= TotalOf(Considered)
N50Of ==
    IF Considered = {} THEN 0
    ELSE CHOOSE L \in {nums_arg[x] : x \in Considered} :
             /\ CoversHalf(L)
             /\ \A x \in Considered : CoversHalf(nums_arg[x]) => nums_arg[x] <= L

C14_N50OfKeptLengths ==
    (fn = "compute_n50" /\ pc = "done") => n50_ret = N50Of

C14_Witness ==
    /\ fn = "compute_n50" /\ pc = "done" /\ is_iterator
    /\ \E x \in DOMAIN nums_arg : nums_arg[x] < n50_cutoff
    /\ n50_ret > 0
    /\ \E x \in DOMAIN nums_arg : nums_arg[x] > n50_ret

\* C15: sorting a list of file names with the key returned by
\* sort_by_pattern(patterns) orders the names by the position in patterns of
\* the pattern each name matches, and keeps the input order among names that
\* match the same pattern.
MatchedPosition(name) ==
    CHOOSE x \in DOMAIN sp_patterns : name[2] \in sp_patterns[x]
PlaceAfterSort(x) ==
    Cardinality({y \in DOMAIN sp_input :
        \/ MatchedPosition(sp_input[y]) < MatchedPosition(sp_input[x])
        \/ MatchedPosition(sp_input[y]) = MatchedPosition(sp_input[x]) /\ y <= x})

C15_OrderedByPatternStable ==
    (fn = "sort_by_pattern" /\ pc = "done") =>
        /\ Len(sp_list) = Len(sp_input)
        /\ \A x \in DOMAIN sp_input : sp_list[PlaceAfterSort(x)] = sp_input[x]

C15_Witness ==
    /\ fn = "sort_by_pattern" /\ pc = "done"
    /\ sp_list # sp_input
    /\ \E x, y \in DOMAIN sp_input :
           /\ x < y /\ sp_input[x] # sp_input[y]
           /\ MatchedPosition(sp_input[x]) = MatchedPosition(sp_input[y])

\* Lines of the stream are named by their line numbers.  Kept are the lines
\* ignore does not reject; an entry is looked at through the line numbers of
\* its lines.
Kept == {x \in DOMAIN stream : ~(ignore = "startswith" /\ stream[x][2] = "#")}
RECURSIVE Concat(_)
Concat(ss) == IF ss = <<>> THEN <<>> ELSE Head(ss) \o Concat(Tail(ss))
RECURSIVE InOrder(_, _)
InOrder(S, from) ==
    IF from > Len(stream) THEN <<>>
    ELSE (IF from \in S THEN <<from>> ELSE <<>>) \o InOrder(S, from + 1)
Stripped(line) == IF construct = "strip" THEN <<line[1], line[2]>> ELSE line
EntryOf(x) == CHOOSE e \in DOMAIN yielded_at :
                  \E y \in DOMAIN yielded_at[e] : yielded_at[e][y] = x
FirstOfEntry(x) == \E e \in DOMAIN yielded_at :
                       yielded_at[e] # <<>> /\ yielded_at[e][1] = x
LastOfEntry(x) == \E e \in DOMAIN yielded_at :
                      yielded_at[e] # <<>> /\ yielded_at[e][Len(yielded_at[e])] = x
NextKept(x, y) == y \in Kept /\ x < y /\ \A z \in Kept : ~(x < z /\ z < y)
SplitDone == fn = "split" /\ pc = "done"

\* C16: the generator returned by split(is_another, construct, ignore)
\* partitions the stream: the concatenation of the yielded entries is exactly
\* construct(line) for every line not rejected by ignore, in stream order; no
\* yielded entry is empty; and a new entry begins at a line exactly when
\* is_another returned true for that line (the first kept line always begins
\* the first entry).
C16_EntriesPartitionTheStream ==
    SplitDone =>
        /\ Concat(yielded_at) = InOrder(Kept, 1)
        /\ Concat(yielded) = [x \in 1 .. Cardinality(Kept) |->
                                 Stripped(stream[InOrder(Kept, 1)[x]])]
        /\ \A e \in DOMAIN yielded :
               yielded[e] # <<>> /\ Len(yielded[e]) = Len(yielded_at[e])
        /\ \A x \in Kept :
               FirstOfEntry(x) <=> (x \in another \/ \A y \in Kept : x <= y)

C16_Witness ==
    /\ SplitDone /\ is_another = "startswith" /\ construct = "strip"
    /\ ignore = "startswith"
    /\ Len(yielded) = 2 /\ Len(yielded[1]) = 1
    /\ Kept # DOMAIN stream
    /\ 1 \in Kept /\ 1 \notin another

\* C17: with an AnotherEntryTail splitter, a line for which is_tail is true
\* concludes its entry: in the output of split every tail line is the last
\* line of the entry that contains it, and the next kept line starts a new
\* entry.
C17_TailConcludesItsEntry ==
    (SplitDone /\ is_another = "AnotherEntryTail") =>
        \A x \in Kept : stream[x][2] = "/" =>
            /\ LastOfEntry(x)
            /\ \A y \in Kept : NextKept(x, y) => FirstOfEntry(y)

\* C18: with an AnotherEntryID splitter, the kept lines that have the same ID
\* belong to the same entry and lines with different IDs belong to different
\* entries, for every order of the lines in the stream.
C18_Original ==
    (SplitDone /\ is_another = "AnotherEntryID") =>
        \A x, y \in Kept : (stream[x][1] = stream[y][1]) <=> (EntryOf(x) = EntryOf(y))

\* C18 (amended): kept lines with different IDs belong to different entries,
\* and two kept lines with the same ID belong to the same entry when no kept
\* line with another ID lies between them.
C18_SameIDRunsAreEntries ==
    (SplitDone /\ is_another = "AnotherEntryID") =>
        \A x, y \in Kept : x <= y =>
            (EntryOf(x) = EntryOf(y) <=>
                \A z \in Kept : (x <= z /\ z <= y) => stream[z][1] = stream[x][1])

C18_Witness ==
    /\ SplitDone /\ is_another = "AnotherEntryID"
    /\ \E x, y \in Kept :
           stream[x][1] = stream[y][1] /\ EntryOf(x) # EntryOf(y)
    /\ \E e \in DOMAIN yielded : Len(yielded[e]) = 2

\* The characters of the values of s from left to right, whatever the nesting.
RECURSIVE Atoms(_)
Atoms(s) ==
    IF s = <<>> THEN <<>>
    ELSE (IF Head(s).t \in {"list", "tuple"} THEN Atoms(Head(s).kids)
          ELSE Head(s).v) \o Atoms(Tail(s))
LeafFor(x, types) == x.t \notin {"list", "tuple", "str"} \/ x.t \in types
FlattenDone == fn = "flatten" /\ pc = "done"

\* C19: flatten(items, ignore_types) yields the leaves of the nested
\* structure in left-to-right depth-first order, where at every nesting depth
\* an element is a leaf if it is not iterable or is an instance of one of
\* ignore_types (such an element is yielded whole and never iterated).
C19_Original ==
    FlattenDone =>
        /\ Atoms(flat) = Atoms(items)
        /\ \A x \in DOMAIN flat : LeafFor(flat[x], ignore_types)
        /\ \A x \in DOMAIN iterated : ~LeafFor(iterated[x], ignore_types)

\* C19 (amended): flatten yields the leaves in left-to-right depth-first
\* order, where an element of items itself is a leaf if it is not iterable or
\* is an instance of one of ignore_types, and an element at a deeper nesting
\* level is a leaf if it is not iterable or is a str or bytes, whatever
\* ignore_types is.
RECURSIVE DeepLeaves(_)
DeepLeaves(s) ==
    IF s = <<>> THEN <<>>
    ELSE (IF LeafFor(Head(s), {"str", "bytes"}) THEN <<Head(s)>>
          ELSE DeepLeaves(Head(s).kids)) \o DeepLeaves(Tail(s))
CharsOf(x) == [c \in 1 .. Len(x.v) |-> [t |-> "str", v |-> <<x.v[c]>>, kids |-> <<>>]]
RECURSIVE TopLeaves(_, _)
TopLeaves(s, types) ==
    IF s = <<>> THEN <<>>
    ELSE (IF LeafFor(Head(s), types) THEN <<Head(s)>>
          ELSE IF Head(s).t = "str" THEN CharsOf(Head(s))
          ELSE DeepLeaves(Head(s).kids)) \o TopLeaves(Tail(s), types)

C19_IgnoreTypesAtTopLevelOnly ==
    FlattenDone => flat = TopLeaves(items, ignore_types)

C19_Witness ==
    /\ FlattenDone /\ ignore_types = {"tuple"}
    /\ \E x \in DOMAIN flat : flat[x].t = "tuple"
    /\ \E x \in DOMAIN iterated : iterated[x].t = "tuple"

\* C20: parse_function_call(expr) raises ValueError('Unbalanced parentheses')
\* for every expression whose parentheses are not balanced (an unclosed '('
\* or a ')' with no matching '('), and for every balanced expression returns
\* the nested list in which no non-space character of a token is lost.
Opened(upto) ==
    Cardinality({x \in 1 .. upto : expr[x] = "("})
        - Cardinality({x \in 1 .. upto : expr[x] = ")"})
Balanced ==
    /\ Opened(Len(expr)) = 0
    /\ \A x \in DOMAIN expr : Opened(x) >= 0
RECURSIVE TokenChars(_)
TokenChars(s) ==
    IF s = <<>> THEN <<>>
    ELSE (IF Head(s) \in {"(", ")", ",", " "} THEN <<>> ELSE <<Head(s)>>)
             \o TokenChars(Tail(s))

C20_RaisesIffUnbalanced ==
    (fn = "parse_function_call" /\ pc \in {"done", "raised"}) =>
        IF Balanced
        THEN pc = "done" /\ Atoms(<<parsed>>) = TokenChars(expr)
        ELSE pc = "raised" /\ parse_exc = "ValueError: Unbalanced parentheses"

\* C21: create_sample_table checks that each selected file name matches one
\* unique pattern: the sort key built by sort_by_pattern raises ValueError
\* for every file name that does not match exactly one of the patterns (both
\* a name matching several patterns and a name matching none).
MatchCount(f) ==
    Cardinality({x \in DOMAIN pattern_types : f[2] \in pattern_types[x]})

C21_ValueErrorUnlessOneMatch ==
    (fn = "create_sample_table" /\ pc \in {"done", "raised"}
        /\ Len(file_types) = Len(pattern_types)) =>
        ((\E f \in SelectedFiles : MatchCount(f) # 1) =>
            (pc = "raised" /\ exc = "ValueError" /\ df = <<>>))

\* C22: in the launcher written by JobArrays.create, the array-job index range
\* requested by the header line '#PBS -t 0-{total}' and the bash array
\* 'scripts' agree: every index in the requested range selects one entry of
\* scripts, every entry (one per metadata row, in row order) is selected by
\* exactly one index, and the number written in each entry's comment is that
\* entry's index.
HeaderLine == fh[CHOOSE x \in DOMAIN fh : fh[x].kind = "header"]
RequestedIndices == HeaderLine.first .. HeaderLine.last
EntryLines == {x \in DOMAIN fh : fh[x].kind = "entry"}
\* bash counts the elements of an array from 0
BashIndex(x) == Cardinality({y \in EntryLines : y < x})

C22_RangeAndScriptsAgree ==
    (fn = "JobArrays" /\ pc = "done") =>
        /\ Cardinality(EntryLines) = Len(metadata)
        /\ \A x \in EntryLines :
               /\ fh[x].script = metadata[BashIndex(x) + 1]
               /\ BashIndex(x) \in RequestedIndices
               /\ fh[x].comment = BashIndex(x)
        /\ \A idx \in RequestedIndices : \E x \in EntryLines : BashIndex(x) = idx

====
